---- MODULE Spec2Model ----
(***************************************************************************)
(* Command authorization and failsafe engine of simulation.py:             *)
(* SecurityEngine (approval quorum, nonce ledger, rate limiter, anomaly    *)
(* score), the kill-switch protocol and the engagement workflow, driven by *)
(* the key handlers of main().                                             *)
(*                                                                         *)
(* Conventions                                                             *)
(*   - time.time() is the integer clock `now` (seconds); one handler runs  *)
(*     at one clock reading, and the clock never goes back.                *)
(*   - a Python dict is a function whose DOMAIN is the set of its keys.    *)
(*   - the float anomaly score is kept in hundredths (0.02 is 2, 3.0 is    *)
(*     300).                                                               *)
(***************************************************************************)
EXTENDS Integers, Sequences, FiniteSets, TLC

VARIABLES
    now,                       \* time.time()
    approvals,                 \* SecurityEngine.approvals: officer -> ts
    ledger,                    \* SecurityEngine.ledger: nonce -> ts
    cmd_times,                 \* SecurityEngine.cmd_times (oldest first)
    anomaly_score,             \* SecurityEngine.anomaly_score, in hundredths
    kill_switch_armed,         \* global kill_switch_armed
    friendly_fire_authorized,  \* global friendly_fire_authorized
    alive,                     \* the robots whose .alive is True
    selected_robot,            \* global selected_robot (NoRobot for None)
    last,                      \* what the most recent handler returned and logged
    granted_at,                \* history: officer -> time of the latest add_approval
    accepted_at,               \* history: nonce -> latest issue time validate_nonce accepted
    executed_since_arm,        \* history: kill executions since the last arm_kill_switch
    failsafe_mode,             \* global failsafe_mode
    rtb_active,                \* global rtb_active
    audit,                     \* the sources of the log_event calls of the most recent handler
    trail,                     \* history: the incident / decay calls made on the score so far
    store,                     \* the lines of blackbox.log
    prev_hash,                 \* BlackBoxLedger.prev_hash
    iteration,                 \* history: the decay_anomaly calls of the main-loop iterations
    enemy_fire_authorized,     \* global enemy_fire_authorized
    cease_fire_active,         \* global cease_fire_active
    bullets,                   \* len(bullets): the bullets in flight
    persisted                  \* history: which log events of the latest handler reached blackbox.log

vars == <<now, approvals, ledger, cmd_times, anomaly_score, kill_switch_armed,
          friendly_fire_authorized, alive, selected_robot, last,
          granted_at, accepted_at, executed_since_arm,
          failsafe_mode, rtb_active, audit, trail, store, prev_hash,
          iteration, enemy_fire_authorized, cease_fire_active, bullets,
          persisted>>

----------------------------------------------------------------------------
(* Bounds of the model *)

MaxTime == 22        \* the clock runs from 0 to MaxTime
Stride == 7          \* the coarse clock of the composite specifications
MaxNonce == 2        \* random.randint(1, 10**7) is drawn from 1..MaxNonce
MaxCalls == 10       \* check_rate_limit is not called on a window this long
NumBots == 2         \* robots per side (spawn_armies deploys 10)

----------------------------------------------------------------------------
(* Configuration: SecurityEngine.__init__ *)

approvals_ttl == 12
required_engage == 2
required_kill == 2
nonce_ttl == 20
rate_window == 6
max_cmds == 8

Officers == {"A", "B", "C"}
Nonces == 1..MaxNonce
AttackAge == 25      \* launch_attack: time.time() - random.choice([0, 25])

NoRobot == <<"NONE", 0>>
friendly_robots == {<<"FRIENDLY", i>> : i \in 0..(NumBots - 1)}
enemy_robots == {<<"ENEMY", i>> : i \in 0..(NumBots - 1)}
Robots == friendly_robots \cup enemy_robots
team(r) == r[1]

----------------------------------------------------------------------------
(* Dict helpers *)

EmptyDict == [k \in {} |-> 0]
Put(d, k, v) == [x \in (DOMAIN d) \cup {k} |-> IF x = k THEN v ELSE d[x]]
Keep(d, keys) == [x \in keys |-> d[x]]

----------------------------------------------------------------------------
(* The record a handler leaves behind: its name, its argument, its return  *)
(* value (or the denial it logged), the incidents it raised (in order),    *)
(* the kill scope it dispatched, and the nonce and issue time it presented *)
(* to validate_nonce.                                                      *)

Obs(op, arg, result, incidents, dispatched, nonce, issued) ==
    [op |-> op, arg |-> arg, result |-> result, incidents |-> incidents,
     dispatched |-> dispatched, nonce |-> nonce, issued |-> issued]

Did(op, arg, result) == Obs(op, arg, result, <<>>, "none", 0, 0)

----------------------------------------------------------------------------
(* SecurityEngine: approvals *)

\* a purge that drops an approval at age approvals_ttl already
clear_old_approvals_strict(appr, t) ==
    Keep(appr, {k \in DOMAIN appr : t - appr[k] < approvals_ttl})

clear_old_approvals(appr, t) ==
    Keep(appr, {k \in DOMAIN appr : t - appr[k] <= approvals_ttl})

add_approval(appr, officer, t) == Put(appr, officer, t)

required(action) == IF action = "engage" THEN required_engage ELSE required_kill

\* a quorum check that counts the records without purging the stale ones
approvals_ok_nopurge(appr, action, t) ==
    [approvals |-> appr, ok |-> Cardinality(DOMAIN appr) >= required(action)]

\* approvals_ok returns (the purged dict, the verdict)
approvals_ok(appr, action, t) ==
    LET cleared == clear_old_approvals(appr, t)
    IN  [approvals |-> cleared,
         ok |-> Cardinality(DOMAIN cleared) >= required(action)]

----------------------------------------------------------------------------
(* SecurityEngine: nonce ledger *)

\* a clean-up that already drops an entry at age nonce_ttl
prune_ledger_inclusive(ldg, t) ==
    Keep(ldg, {n \in DOMAIN ldg : ~(t - ldg[n] >= nonce_ttl)})

\* the "clean old" loop of validate_nonce
prune_ledger(ldg, t) ==
    Keep(ldg, {n \in DOMAIN ldg : ~(t - ldg[n] > nonce_ttl)})

\* a validation that never checks the age of the request
validate_nonce_noexpiry(ldg, nonce, ts, t) ==
    IF nonce \in DOMAIN ldg
    THEN [ledger |-> ldg, ok |-> FALSE, reason |-> "replay"]
    ELSE [ledger |-> prune_ledger(Put(ldg, nonce, ts), t),
          ok |-> TRUE, reason |-> "accepted"]

\* a validation that checks the age before the ledger
validate_nonce_expiry_first(ldg, nonce, ts, t) ==
    IF t - ts > nonce_ttl
    THEN [ledger |-> ldg, ok |-> FALSE, reason |-> "expired"]
    ELSE IF nonce \in DOMAIN ldg
    THEN [ledger |-> ldg, ok |-> FALSE, reason |-> "replay"]
    ELSE [ledger |-> prune_ledger(Put(ldg, nonce, ts), t),
          ok |-> TRUE, reason |-> "accepted"]

\* validate_nonce((nonce, ts)) at time t: (the ledger after, ok, reason)
validate_nonce(ldg, nonce, ts, t) ==
    IF nonce \in DOMAIN ldg
    THEN [ledger |-> ldg, ok |-> FALSE, reason |-> "replay"]
    ELSE IF t - ts > nonce_ttl
    THEN [ledger |-> ldg, ok |-> FALSE, reason |-> "expired"]
    ELSE [ledger |-> prune_ledger(Put(ldg, nonce, ts), t),
          ok |-> TRUE, reason |-> "accepted"]

----------------------------------------------------------------------------
(* SecurityEngine: rate limiter *)

\* while self.cmd_times and now - self.cmd_times[0] > self.rate_window: popleft()
RECURSIVE evict_front(_, _)
evict_front(times, t) ==
    IF times # <<>> /\ t - Head(times) > rate_window
    THEN evict_front(Tail(times), t)
    ELSE times

\* a limiter that records a call only when it allows it
check_rate_limit_record_allowed(times, t) ==
    LET window == evict_front(Append(times, t), t)
    IN  IF Len(window) <= max_cmds
        THEN [cmd_times |-> window, ok |-> TRUE]
        ELSE [cmd_times |-> evict_front(times, t), ok |-> FALSE]

\* check_rate_limit at time t: (the window after, the verdict)
check_rate_limit(times, t) ==
    LET window == evict_front(Append(times, t), t)
    IN  [cmd_times |-> window, ok |-> Len(window) <= max_cmds]

----------------------------------------------------------------------------
(* SecurityEngine: anomaly score, in hundredths: the weights, the decay and *)
(* the thresholds are decimals of two places, added and compared exactly   *)

MaxScore == 300

\* one ladder with the weight of "civilian" for "rogue_node" as well
delta_rogue_as_civilian(kind) ==
    CASE kind = "replay_fail" -> 70
      [] kind = "rate_limit" -> 50
      [] kind = "rogue_node" -> 100
      [] kind = "network_compromise" -> 60
      [] kind = "civilian" -> 100
      [] kind = "out_of_control" -> 80
      [] OTHER -> 30

delta(kind) ==
    CASE kind = "replay_fail" -> 70
      [] kind = "rate_limit" -> 50
      [] kind = "rogue_node" -> 90
      [] kind = "network_compromise" -> 60
      [] kind = "civilian" -> 100
      [] kind = "out_of_control" -> 80
      [] OTHER -> 30

Min(a, b) == IF a <= b THEN a ELSE b

Max(a, b) == IF a >= b THEN a ELSE b

\* an incident that adds its weight without the cap
incident_unclamped(score, kind) == score + delta(kind)

incident(score, kind) == Min(MaxScore, score + delta(kind))

DecayStep == 2

\* a decay of 1.5 a tick
decay_anomaly_fast(score) == Max(0, score - 150)

\* a decay that leaves the score as it is
decay_anomaly_none(score) == score

decay_anomaly(score) == Max(0, score - DecayStep)

DegradeAt == 60
HoldAt == 130
RtbAt == 220

\* thresholds that a score has to exceed
failsafe_state_strict(score) ==
    IF score > RtbAt THEN "RTB"
    ELSE IF score > HoldAt THEN "HOLD"
    ELSE IF score > DegradeAt THEN "DEGRADE"
    ELSE "NONE"

failsafe_state(score) ==
    IF score >= RtbAt THEN "RTB"
    ELSE IF score >= HoldAt THEN "HOLD"
    ELSE IF score >= DegradeAt THEN "DEGRADE"
    ELSE "NONE"

----------------------------------------------------------------------------
(* update_failsafe. rotate_keys_if_needed, its first call, changes only     *)
(* key_epoch and last_rotate, which no other code reads.                   *)

\* the branch taken when the mode has changed, with a HOLD that leaves the
\* friendly authorization alone
on_mode_change_no_revoke(new_mode, rtb, ffa) ==
    CASE new_mode = "DEGRADE" ->
             [rtb_active |-> rtb, friendly_fire_authorized |-> ffa, log |-> <<"FAILSAFE">>]
      [] new_mode = "HOLD" ->
             [rtb_active |-> rtb, friendly_fire_authorized |-> ffa, log |-> <<"FAILSAFE">>]
      [] new_mode = "RTB" ->
             [rtb_active |-> TRUE, friendly_fire_authorized |-> ffa, log |-> <<"FAILSAFE">>]
      [] OTHER ->
             [rtb_active |-> FALSE, friendly_fire_authorized |-> ffa, log |-> <<"FAILSAFE">>]

\* the same branch, ending RTB as soon as the mode leaves "RTB"
on_mode_change_rtb_while_mode(new_mode, rtb, ffa) ==
    CASE new_mode = "DEGRADE" ->
             [rtb_active |-> FALSE, friendly_fire_authorized |-> ffa, log |-> <<"FAILSAFE">>]
      [] new_mode = "HOLD" ->
             [rtb_active |-> FALSE, friendly_fire_authorized |-> FALSE, log |-> <<"FAILSAFE">>]
      [] new_mode = "RTB" ->
             [rtb_active |-> TRUE, friendly_fire_authorized |-> ffa, log |-> <<"FAILSAFE">>]
      [] OTHER ->
             [rtb_active |-> FALSE, friendly_fire_authorized |-> ffa, log |-> <<"FAILSAFE">>]

\* the body of "if new_mode != failsafe_mode" after the assignment: the
\* notification and the side effect of the mode entered
on_mode_change(new_mode, rtb, ffa) ==
    CASE new_mode = "DEGRADE" ->
             [rtb_active |-> rtb, friendly_fire_authorized |-> ffa, log |-> <<"FAILSAFE">>]
      [] new_mode = "HOLD" ->
             [rtb_active |-> rtb, friendly_fire_authorized |-> FALSE, log |-> <<"FAILSAFE">>]
      [] new_mode = "RTB" ->
             [rtb_active |-> TRUE, friendly_fire_authorized |-> ffa, log |-> <<"FAILSAFE">>]
      [] OTHER ->
             [rtb_active |-> FALSE, friendly_fire_authorized |-> ffa, log |-> <<"FAILSAFE">>]

\* an update that runs the branch on every call
update_failsafe_every_call(mode, rtb, ffa, score) ==
    LET s == decay_anomaly(score)
        new_mode == failsafe_state(s)
        e == on_mode_change(new_mode, rtb, ffa)
    IN  [anomaly_score |-> s, failsafe_mode |-> new_mode,
         rtb_active |-> e.rtb_active,
         friendly_fire_authorized |-> e.friendly_fire_authorized, log |-> e.log]

\* an update that takes the mode of the score before its decay
update_failsafe_before_decay(mode, rtb, ffa, score) ==
    LET s == decay_anomaly(score)
        new_mode == failsafe_state(score)
        e == on_mode_change(new_mode, rtb, ffa)
    IN  IF new_mode # mode
        THEN [anomaly_score |-> s, failsafe_mode |-> new_mode,
              rtb_active |-> e.rtb_active,
              friendly_fire_authorized |-> e.friendly_fire_authorized, log |-> e.log]
        ELSE [anomaly_score |-> s, failsafe_mode |-> mode, rtb_active |-> rtb,
              friendly_fire_authorized |-> ffa, log |-> <<>>]

update_failsafe(mode, rtb, ffa, score) ==
    LET s == decay_anomaly(score)
        new_mode == failsafe_state(s)
        e == on_mode_change(new_mode, rtb, ffa)
    IN  IF new_mode # mode
        THEN [anomaly_score |-> s, failsafe_mode |-> new_mode,
              rtb_active |-> e.rtb_active,
              friendly_fire_authorized |-> e.friendly_fire_authorized, log |-> e.log]
        ELSE [anomaly_score |-> s, failsafe_mode |-> mode, rtb_active |-> rtb,
              friendly_fire_authorized |-> ffa, log |-> <<>>]

\* K_r: SECURITY.anomaly_score = max(SECURITY.anomaly_score, 2.2)
manual_rtb(score) == Max(score, RtbAt)

----------------------------------------------------------------------------
(* start_engagement_workflow at time t with the nonce random.randint drew: *)
(* the engine state after, the return value, the denial and the incidents  *)

\* a workflow that validates the nonce before it checks the rate limit
start_engagement_workflow_nonce_first(appr, times, ldg, score, nonce, t) ==
    LET q == approvals_ok(appr, "engage", t)
        r == check_rate_limit(times, t)
        v == validate_nonce(ldg, nonce, t, t)
    IN  IF ~q.ok
        THEN [approvals |-> q.approvals, cmd_times |-> times, ledger |-> ldg,
              anomaly_score |-> score, ok |-> FALSE,
              result |-> "DeniedQuorum", incidents |-> <<>>]
        ELSE IF ~v.ok
        THEN [approvals |-> q.approvals, cmd_times |-> times, ledger |-> v.ledger,
              anomaly_score |-> incident(score, "replay_fail"), ok |-> FALSE,
              result |-> "DeniedReplay", incidents |-> <<"replay_fail">>]
        ELSE IF ~r.ok
        THEN [approvals |-> q.approvals, cmd_times |-> r.cmd_times, ledger |-> v.ledger,
              anomaly_score |-> incident(score, "rate_limit"), ok |-> FALSE,
              result |-> "DeniedRateLimit", incidents |-> <<"rate_limit">>]
        ELSE [approvals |-> q.approvals, cmd_times |-> r.cmd_times, ledger |-> v.ledger,
              anomaly_score |-> score, ok |-> TRUE,
              result |-> "Authorized", incidents |-> <<>>]

\* a workflow that treats a missing quorum as an anomaly
start_engagement_workflow_quorum_incident(appr, times, ldg, score, nonce, t) ==
    LET q == approvals_ok(appr, "engage", t)
        r == check_rate_limit(times, t)
        v == validate_nonce(ldg, nonce, t, t)
    IN  IF ~q.ok
        THEN [approvals |-> q.approvals, cmd_times |-> times, ledger |-> ldg,
              anomaly_score |-> incident(score, "quorum"), ok |-> FALSE,
              result |-> "DeniedQuorum", incidents |-> <<"quorum">>]
        ELSE IF ~r.ok
        THEN [approvals |-> q.approvals, cmd_times |-> r.cmd_times, ledger |-> ldg,
              anomaly_score |-> incident(score, "rate_limit"), ok |-> FALSE,
              result |-> "DeniedRateLimit", incidents |-> <<"rate_limit">>]
        ELSE IF ~v.ok
        THEN [approvals |-> q.approvals, cmd_times |-> r.cmd_times, ledger |-> v.ledger,
              anomaly_score |-> incident(score, "replay_fail"), ok |-> FALSE,
              result |-> "DeniedReplay", incidents |-> <<"replay_fail">>]
        ELSE [approvals |-> q.approvals, cmd_times |-> r.cmd_times, ledger |-> v.ledger,
              anomaly_score |-> score, ok |-> TRUE,
              result |-> "Authorized", incidents |-> <<>>]

start_engagement_workflow(appr, times, ldg, score, nonce, t) ==
    LET q == approvals_ok(appr, "engage", t)
        r == check_rate_limit(times, t)
        v == validate_nonce(ldg, nonce, t, t)
    IN  IF ~q.ok
        THEN [approvals |-> q.approvals, cmd_times |-> times, ledger |-> ldg,
              anomaly_score |-> score, ok |-> FALSE,
              result |-> "DeniedQuorum", incidents |-> <<>>]
        ELSE IF ~r.ok
        THEN [approvals |-> q.approvals, cmd_times |-> r.cmd_times, ledger |-> ldg,
              anomaly_score |-> incident(score, "rate_limit"), ok |-> FALSE,
              result |-> "DeniedRateLimit", incidents |-> <<"rate_limit">>]
        ELSE IF ~v.ok
        THEN [approvals |-> q.approvals, cmd_times |-> r.cmd_times, ledger |-> v.ledger,
              anomaly_score |-> incident(score, "replay_fail"), ok |-> FALSE,
              result |-> "DeniedReplay", incidents |-> <<"replay_fail">>]
        ELSE [approvals |-> q.approvals, cmd_times |-> r.cmd_times, ledger |-> v.ledger,
              anomaly_score |-> score, ok |-> TRUE,
              result |-> "Authorized", incidents |-> <<>>]

----------------------------------------------------------------------------
(* Kill actions and the kill-switch protocol *)

army(side) == IF side = "FRIENDLY" THEN friendly_robots ELSE enemy_robots

kill_selected_robot(al, sel) ==
    IF sel # NoRobot /\ sel \in al THEN al \ {sel} ELSE al

kill_selected_army(al, sel) ==
    IF sel = NoRobot THEN al ELSE al \ army(team(sel))

kill_all_robots(al) == al \ (friendly_robots \cup enemy_robots)

\* an execution that leaves the switch armed
execute_kill_switch_noreset(armed, appr, al, sel, kind, t) ==
    LET q == approvals_ok(appr, "kill", t)
    IN  IF ~armed
        THEN [kill_switch_armed |-> armed, approvals |-> appr, alive |-> al,
              result |-> "DeniedNotArmed", dispatched |-> "none"]
        ELSE IF ~q.ok
        THEN [kill_switch_armed |-> armed, approvals |-> q.approvals, alive |-> al,
              result |-> "DeniedQuorum", dispatched |-> "none"]
        ELSE [kill_switch_armed |-> armed, approvals |-> q.approvals,
              alive |-> CASE kind = "unit" -> kill_selected_robot(al, sel)
                          [] kind = "army" -> kill_selected_army(al, sel)
                          [] OTHER -> kill_all_robots(al),
              result |-> "Executed", dispatched |-> kind]

\* execute_kill_switch(kind) at time t
execute_kill_switch(armed, appr, al, sel, kind, t) ==
    LET q == approvals_ok(appr, "kill", t)
    IN  IF ~armed
        THEN [kill_switch_armed |-> armed, approvals |-> appr, alive |-> al,
              result |-> "DeniedNotArmed", dispatched |-> "none"]
        ELSE IF ~q.ok
        THEN [kill_switch_armed |-> armed, approvals |-> q.approvals, alive |-> al,
              result |-> "DeniedQuorum", dispatched |-> "none"]
        ELSE [kill_switch_armed |-> FALSE, approvals |-> q.approvals,
              alive |-> CASE kind = "unit" -> kill_selected_robot(al, sel)
                          [] kind = "army" -> kill_selected_army(al, sel)
                          [] OTHER -> kill_all_robots(al),
              result |-> "Executed", dispatched |-> kind]

----------------------------------------------------------------------------
(* The log_event calls of the handlers, by source tag *)

\* start_engagement_workflow: the events of each outcome (incident logs "IDS")
WorkflowLog(result) ==
    CASE result = "DeniedQuorum" -> <<"HUMAN">>
      [] result = "DeniedRateLimit" -> <<"IDS", "IDS">>
      [] result = "DeniedReplay" -> <<"IDS", "SECURE">>
      [] OTHER -> <<"SECURE", "SYSTEM">>

\* execute_kill_switch and the kill action it dispatched
KillLog(result, kind, al, sel) ==
    IF result # "Executed"
    THEN <<"KILL-SW">>
    ELSE <<"KILL-SW", "KILL-SW">> \o
         (CASE kind = "unit" ->
                  IF sel # NoRobot /\ sel \in al THEN <<"HUMAN-CMD">> ELSE <<"SYSTEM">>
            [] kind = "army" ->
                  IF sel = NoRobot THEN <<"SYSTEM">> ELSE <<"HUMAN-CMD">>
            [] OTHER -> <<"HUMAN-CMD">>)

----------------------------------------------------------------------------
(* History of the calls made on the anomaly score since construction, kept *)
(* while they follow one ladder: the incidents of LadderKinds in this      *)
(* order, then decays, as many as take the highest score to 0; any other   *)
(* call or write switches the history off.                                 *)

LadderKinds == <<"civilian", "civilian", "rogue_node">>

NoTrail == [on |-> TRUE, kinds |-> <<>>, decays |-> 0]
OffTrail == [on |-> FALSE, kinds |-> <<>>, decays |-> 0]

TrailIncident(tr, kind) ==
    IF /\ tr.on
       /\ tr.decays = 0
       /\ Len(tr.kinds) < Len(LadderKinds)
       /\ kind = LadderKinds[Len(tr.kinds) + 1]
    THEN [tr EXCEPT !.kinds = Append(@, kind)]
    ELSE OffTrail

RECURSIVE TrailIncidents(_, _)
TrailIncidents(tr, kinds) ==
    IF kinds = <<>> THEN tr
    ELSE TrailIncidents(TrailIncident(tr, Head(kinds)), Tail(kinds))

TrailDecay(tr) ==
    IF tr.on /\ tr.kinds = LadderKinds /\ tr.decays < 150
    THEN [tr EXCEPT !.decays = @ + 1]
    ELSE OffTrail

----------------------------------------------------------------------------
(* BlackBoxLedger *)

Genesis == <<"GENESIS">>

\* hashlib.sha256(...).hexdigest() of prev_hash + payload: a digest is the
\* pair it was computed from, so that two digests are equal exactly when
\* their inputs are
Hash(prev, payload) == <<prev, payload>>

\* payload = f"{ts} {text}"
Payload(t, text) == <<t, text>>

\* line = f"{h} | {payload}\n"
Line(h, payload) == [hash |-> h, payload |-> payload]

\* an append that hashes the payload alone, from the genesis constant
append_unchained(st, ph, text, t, writable) ==
    LET payload == Payload(t, text)
        h == Hash(Genesis, payload)
    IN  IF writable
        THEN [store |-> Append(st, Line(h, payload)), prev_hash |-> h]
        ELSE [store |-> st, prev_hash |-> ph]

\* an append that moves prev_hash on before the write, and leaves it there when
\* the write fails
append_hash_first(st, ph, text, t, writable) ==
    LET payload == Payload(t, text)
        h == Hash(ph, payload)
    IN  IF writable
        THEN [store |-> Append(st, Line(h, payload)), prev_hash |-> h]
        ELSE [store |-> st, prev_hash |-> h]

\* BlackBoxLedger.append(text) at time t; writable is whether open and write
\* succeed, and prev_hash moves on only after they did
append(st, ph, text, t, writable) ==
    LET payload == Payload(t, text)
        h == Hash(ph, payload)
    IN  IF writable
        THEN [store |-> Append(st, Line(h, payload)), prev_hash |-> h]
        ELSE [store |-> st, prev_hash |-> ph]

\* a construction that never reads the store
BlackBoxLedger_unread(st, readable) == Genesis

\* BlackBoxLedger.__init__: prev_hash is field 0 of the last line of the
\* file; it is "GENESIS" when there is no file or no line, and when reading
\* raises
BlackBoxLedger(st, readable) ==
    IF readable /\ st # <<>> THEN st[Len(st)].hash ELSE Genesis

----------------------------------------------------------------------------
(* The main loop *)

\* the K_r presses one iteration of the main loop handles
MaxEvents == 1

\* An iteration of the main loop handles its events first (K_r calls
\* update_failsafe, which decays the score) and then calls update_failsafe
\* itself; nothing after that call decays the score. "events" counts the decays
\* the event handlers of the current iteration made, "decays" those of the
\* latest iteration whose update_failsafe has run (0 before the first).
NoIteration == [events |-> 0, decays |-> 0]

IterationEvent(it) == [it EXCEPT !.events = @ + 1]

IterationUpdate(it) == [events |-> 0, decays |-> it.events + 1]

----------------------------------------------------------------------------
Init ==
    /\ now = 0
    /\ approvals = EmptyDict
    /\ ledger = EmptyDict
    /\ cmd_times = <<>>
    /\ anomaly_score = 0
    /\ kill_switch_armed = FALSE
    /\ friendly_fire_authorized = FALSE
    /\ alive = Robots
    /\ selected_robot = NoRobot
    /\ last = Did("init", "", "")
    /\ granted_at = EmptyDict
    /\ accepted_at = EmptyDict
    /\ executed_since_arm = 0
    /\ failsafe_mode = "NONE"
    /\ rtb_active = FALSE
    /\ audit = <<>>
    /\ trail = NoTrail
    /\ store = <<>>
    /\ prev_hash = Genesis
    /\ iteration = NoIteration
    /\ enemy_fire_authorized = FALSE
    /\ cease_fire_active = FALSE
    /\ bullets = 0
    /\ persisted = <<>>

\* Wall-clock time passes between two handlers: d seconds.
AdvanceClock(d) ==
    /\ now + d <= MaxTime
    /\ now' = now + d
    /\ last' = Did("clock", "", "")
    /\ UNCHANGED <<approvals, ledger, cmd_times, anomaly_score, kill_switch_armed,
                   friendly_fire_authorized, alive, selected_robot,
                   granted_at, accepted_at, executed_since_arm>>
    /\ audit' = <<>>
    /\ UNCHANGED <<failsafe_mode, rtb_active, trail, store, prev_hash>>
    /\ UNCHANGED <<iteration, enemy_fire_authorized, cease_fire_active, bullets, persisted>>

\* SECURITY.add_approval(officer): K_q and K_w press it for A and B
CallAddApprovalCore(officer) ==
    /\ approvals' = add_approval(approvals, officer, now)
    /\ granted_at' = Put(granted_at, officer, now)
    /\ last' = Did("add_approval", officer, "")
    /\ UNCHANGED <<now, ledger, cmd_times, anomaly_score, kill_switch_armed,
                   friendly_fire_authorized, alive, selected_robot,
                   accepted_at, executed_since_arm>>
    /\ audit' = <<"AUTH">>
    /\ UNCHANGED <<failsafe_mode, rtb_active, trail>>
    /\ UNCHANGED <<iteration, enemy_fire_authorized, cease_fire_active, bullets>>

\* the same handler, its log events not followed into blackbox.log
CallAddApproval(officer) ==
    /\ CallAddApprovalCore(officer)
    /\ UNCHANGED <<store, prev_hash, persisted>>

\* Engine call SECURITY.approvals_ok(action)
CallApprovalsOk(action) ==
    LET q == approvals_ok(approvals, action, now)
    IN  /\ approvals' = q.approvals
        /\ last' = Did("approvals_ok", action, IF q.ok THEN "true" ELSE "false")
        /\ UNCHANGED <<now, ledger, cmd_times, anomaly_score, kill_switch_armed,
                       friendly_fire_authorized, alive, selected_robot,
                       granted_at, accepted_at, executed_since_arm>>
        /\ audit' = <<>>
        /\ UNCHANGED <<failsafe_mode, rtb_active, trail, store, prev_hash>>
        /\ UNCHANGED <<iteration, enemy_fire_authorized, cease_fire_active, bullets, persisted>>

\* the history of accepted nonces after validate_nonce answered v
Accepted(v, nonce, ts) ==
    IF v.ok /\ (nonce \notin DOMAIN accepted_at \/ accepted_at[nonce] < ts)
    THEN Put(accepted_at, nonce, ts)
    ELSE accepted_at

\* Engine call SECURITY.validate_nonce((nonce, now - age))
CallValidateNonce(nonce, age) ==
    LET v == validate_nonce(ledger, nonce, now - age, now)
    IN  /\ ledger' = v.ledger
        /\ accepted_at' = Accepted(v, nonce, now - age)
        /\ last' = Obs("validate_nonce", "", v.reason, <<>>, "none", nonce, now - age)
        /\ UNCHANGED <<now, approvals, cmd_times, anomaly_score, kill_switch_armed,
                       friendly_fire_authorized, alive, selected_robot,
                       granted_at, executed_since_arm>>
        /\ audit' = <<>>
        /\ UNCHANGED <<failsafe_mode, rtb_active, trail, store, prev_hash>>
        /\ UNCHANGED <<iteration, enemy_fire_authorized, cease_fire_active, bullets, persisted>>

\* Engine call SECURITY.check_rate_limit()
CallCheckRateLimit ==
    LET r == check_rate_limit(cmd_times, now)
    IN  /\ Len(cmd_times) < MaxCalls
        /\ cmd_times' = r.cmd_times
        /\ last' = Did("check_rate_limit", "", IF r.ok THEN "true" ELSE "false")
        /\ UNCHANGED <<now, approvals, ledger, anomaly_score, kill_switch_armed,
                       friendly_fire_authorized, alive, selected_robot,
                       granted_at, accepted_at, executed_since_arm>>
        /\ audit' = <<>>
        /\ UNCHANGED <<failsafe_mode, rtb_active, trail, store, prev_hash>>
        /\ UNCHANGED <<iteration, enemy_fire_authorized, cease_fire_active, bullets, persisted>>

\* K_e: SECURITY.add_approval("C"), then start_engagement_workflow(); a True
\* return sets friendly_fire_authorized
KeyECore(nonce) ==
    LET appr == add_approval(approvals, "C", now)
        w == start_engagement_workflow(appr, cmd_times, ledger, anomaly_score, nonce, now)
        v == [ok |-> w.result = "Authorized"]
    IN  /\ Len(cmd_times) < MaxCalls
        /\ approvals' = w.approvals
        /\ granted_at' = Put(granted_at, "C", now)
        /\ cmd_times' = w.cmd_times
        /\ ledger' = w.ledger
        /\ accepted_at' = Accepted(v, nonce, now)
        /\ anomaly_score' = w.anomaly_score
        /\ friendly_fire_authorized' = IF w.ok THEN TRUE ELSE friendly_fire_authorized
        /\ last' = Obs("request_engagement", "", w.result, w.incidents, "none", nonce, now)
        /\ UNCHANGED <<now, kill_switch_armed, alive, selected_robot, executed_since_arm>>
        /\ audit' = <<"AUTH">> \o WorkflowLog(w.result)
        /\ trail' = TrailIncidents(trail, w.incidents)
        /\ UNCHANGED <<failsafe_mode, rtb_active>>
        /\ UNCHANGED <<iteration, enemy_fire_authorized, cease_fire_active, bullets>>

\* the same handler, its log events not followed into blackbox.log
KeyE(nonce) ==
    /\ KeyECore(nonce)
    /\ UNCHANGED <<store, prev_hash, persisted>>

\* K_j: arm_kill_switch()
KeyJCore ==
    /\ kill_switch_armed' = TRUE
    /\ executed_since_arm' = 0
    /\ last' = Did("arm_kill_switch", "", "")
    /\ UNCHANGED <<now, approvals, ledger, cmd_times, anomaly_score,
                   friendly_fire_authorized, alive, selected_robot,
                   granted_at, accepted_at>>
    /\ audit' = <<"KILL-SW">>
    /\ UNCHANGED <<failsafe_mode, rtb_active, trail>>
    /\ UNCHANGED <<iteration, enemy_fire_authorized, cease_fire_active, bullets>>

\* the same handler, its log events not followed into blackbox.log
KeyJ ==
    /\ KeyJCore
    /\ UNCHANGED <<store, prev_hash, persisted>>

\* K_k / K_l / K_u: execute_kill_switch("unit" / "army" / "fleet")
KeyKillCore(kind) ==
    LET x == execute_kill_switch(kill_switch_armed, approvals, alive, selected_robot,
                                 kind, now)
    IN  /\ kill_switch_armed' = x.kill_switch_armed
        /\ approvals' = x.approvals
        /\ alive' = x.alive
        /\ executed_since_arm' = IF x.result = "Executed"
                                 THEN Min(2, executed_since_arm + 1)
                                 ELSE executed_since_arm
        /\ last' = Obs("execute_kill_switch", kind, x.result, <<>>, x.dispatched, 0, 0)
        /\ UNCHANGED <<now, ledger, cmd_times, anomaly_score, friendly_fire_authorized,
                       selected_robot, granted_at, accepted_at>>
        /\ audit' = KillLog(x.result, kind, alive, selected_robot)
        /\ UNCHANGED <<failsafe_mode, rtb_active, trail>>
        /\ UNCHANGED <<iteration, enemy_fire_authorized, cease_fire_active, bullets>>

\* the same handler, its log events not followed into blackbox.log
KeyKill(kind) ==
    /\ KeyKillCore(kind)
    /\ UNCHANGED <<store, prev_hash, persisted>>

\* left click: select_robot_at picks a live robot under the cursor, or None
Select(r) ==
    /\ r = NoRobot \/ r \in alive
    /\ selected_robot' = r
    /\ last' = Did("select", "", "")
    /\ UNCHANGED <<now, approvals, ledger, cmd_times, anomaly_score, kill_switch_armed,
                   friendly_fire_authorized, alive, granted_at, accepted_at,
                   executed_since_arm>>
    /\ audit' = IF r = NoRobot THEN <<>> ELSE <<"SYSTEM">>
    /\ UNCHANGED <<failsafe_mode, rtb_active, trail, store, prev_hash>>
    /\ UNCHANGED <<iteration, enemy_fire_authorized, cease_fire_active, bullets, persisted>>

\* K_x / ATTACKER.update: launch_attack, scenario "replay"
AttackReplay(nonce, age) ==
    LET v == validate_nonce(ledger, nonce, now - age, now)
    IN  /\ ledger' = v.ledger
        /\ accepted_at' = Accepted(v, nonce, now - age)
        /\ anomaly_score' = IF v.ok THEN anomaly_score
                            ELSE incident(anomaly_score, "replay_fail")
        /\ last' = Obs("launch_attack", "replay", v.reason,
                       IF v.ok THEN <<>> ELSE <<"replay_fail">>, "none", nonce, now - age)
        /\ UNCHANGED <<now, approvals, cmd_times, kill_switch_armed,
                       friendly_fire_authorized, alive, selected_robot,
                       granted_at, executed_since_arm>>
        /\ audit' = IF v.ok THEN <<"ATTACK", "MITIGATION">> ELSE <<"ATTACK", "MITIGATION", "IDS">>
        /\ trail' = IF v.ok THEN trail ELSE TrailIncidents(trail, <<"replay_fail">>)
        /\ UNCHANGED <<failsafe_mode, rtb_active, store, prev_hash>>
        /\ UNCHANGED <<iteration, enemy_fire_authorized, cease_fire_active, bullets, persisted>>

\* launch_attack, scenarios "network" and "rogue": the IDS may raise an incident
AttackOther(kind, flagged) ==
    /\ anomaly_score' = IF flagged THEN incident(anomaly_score, kind) ELSE anomaly_score
    /\ last' = Obs("launch_attack", kind, "", IF flagged THEN <<kind>> ELSE <<>>,
                   "none", 0, 0)
    /\ UNCHANGED <<now, approvals, ledger, cmd_times, kill_switch_armed,
                   friendly_fire_authorized, alive, selected_robot,
                   granted_at, accepted_at, executed_since_arm>>
    /\ audit' = IF flagged THEN <<"ATTACK", "MITIGATION", "IDS">> ELSE <<"ATTACK", "MITIGATION">>
    /\ trail' = IF flagged THEN TrailIncidents(trail, <<kind>>) ELSE trail
    /\ UNCHANGED <<failsafe_mode, rtb_active, store, prev_hash>>
    /\ UNCHANGED <<iteration, enemy_fire_authorized, cease_fire_active, bullets, persisted>>

LaunchAttack ==
    \/ \E n \in Nonces, age \in {0, AttackAge} : AttackReplay(n, age)
    \/ \E kind \in {"network_compromise", "rogue_node"}, flagged \in BOOLEAN :
          AttackOther(kind, flagged)

----------------------------------------------------------------------------
(* The anomaly score and the failsafe *)

Kinds == {"replay_fail", "rate_limit", "rogue_node", "network_compromise",
          "civilian", "out_of_control"}

\* the kinds of the weight table and one that the table does not list
AllKinds == Kinds \cup {"unlisted"}

\* SECURITY.incident(kind), as try_shoot, update_bullets_and_collisions and
\* any other caller of the engine raise it
CallIncidentCore(kind) ==
    /\ anomaly_score' = incident(anomaly_score, kind)
    /\ last' = Obs("incident", kind, "", <<kind>>, "none", 0, 0)
    /\ audit' = <<"IDS">>
    /\ trail' = TrailIncident(trail, kind)
    /\ UNCHANGED <<now, approvals, ledger, cmd_times, kill_switch_armed,
                   friendly_fire_authorized, alive, selected_robot,
                   granted_at, accepted_at, executed_since_arm,
                   failsafe_mode, rtb_active>>
    /\ UNCHANGED <<iteration, enemy_fire_authorized, cease_fire_active, bullets>>

\* the same handler, its log events not followed into blackbox.log
CallIncident(kind) ==
    /\ CallIncidentCore(kind)
    /\ UNCHANGED <<store, prev_hash, persisted>>

\* SECURITY.decay_anomaly()
CallDecay ==
    /\ anomaly_score' = decay_anomaly(anomaly_score)
    /\ last' = Did("decay_anomaly", "", "")
    /\ audit' = <<>>
    /\ trail' = TrailDecay(trail)
    /\ UNCHANGED <<now, approvals, ledger, cmd_times, kill_switch_armed,
                   friendly_fire_authorized, alive, selected_robot,
                   granted_at, accepted_at, executed_since_arm,
                   failsafe_mode, rtb_active, store, prev_hash>>
    /\ UNCHANGED <<iteration, enemy_fire_authorized, cease_fire_active, bullets, persisted>>

\* SECURITY.failsafe_state()
CallFailsafeState ==
    /\ last' = Did("failsafe_state", "", failsafe_state(anomaly_score))
    /\ audit' = <<>>
    /\ UNCHANGED <<now, approvals, ledger, cmd_times, anomaly_score,
                   kill_switch_armed, friendly_fire_authorized, alive,
                   selected_robot, granted_at, accepted_at, executed_since_arm,
                   failsafe_mode, rtb_active, trail, store, prev_hash>>
    /\ UNCHANGED <<iteration, enemy_fire_authorized, cease_fire_active, bullets, persisted>>

\* main loop, once per frame: update_failsafe(); last.arg is the mode before
UpdateFailsafe ==
    LET u == update_failsafe(failsafe_mode, rtb_active, friendly_fire_authorized,
                             anomaly_score)
    IN  /\ anomaly_score' = u.anomaly_score
        /\ failsafe_mode' = u.failsafe_mode
        /\ rtb_active' = u.rtb_active
        /\ friendly_fire_authorized' = u.friendly_fire_authorized
        /\ last' = Did("update_failsafe", failsafe_mode, u.failsafe_mode)
        /\ audit' = u.log
        /\ trail' = TrailDecay(trail)
        /\ iteration' = IterationUpdate(iteration)
        /\ UNCHANGED <<now, approvals, ledger, cmd_times, kill_switch_armed,
                       alive, selected_robot, granted_at, accepted_at,
                       executed_since_arm, store, prev_hash>>
        /\ UNCHANGED <<enemy_fire_authorized, cease_fire_active, bullets, persisted>>

\* K_r: the score is raised to the RTB threshold, then update_failsafe()
KeyR ==
    LET u == update_failsafe(failsafe_mode, rtb_active, friendly_fire_authorized,
                             manual_rtb(anomaly_score))
    IN  /\ iteration.events < MaxEvents
        /\ anomaly_score' = u.anomaly_score
        /\ failsafe_mode' = u.failsafe_mode
        /\ rtb_active' = u.rtb_active
        /\ friendly_fire_authorized' = u.friendly_fire_authorized
        /\ last' = Did("manual_rtb", failsafe_mode, u.failsafe_mode)
        /\ audit' = <<"HUMAN-CMD">> \o u.log
        /\ trail' = OffTrail
        /\ iteration' = IterationEvent(iteration)
        /\ UNCHANGED <<now, approvals, ledger, cmd_times, kill_switch_armed,
                       alive, selected_robot, granted_at, accepted_at,
                       executed_since_arm, store, prev_hash>>
        /\ UNCHANGED <<enemy_fire_authorized, cease_fire_active, bullets, persisted>>

\* K_f
KeyF ==
    /\ friendly_fire_authorized' = ~friendly_fire_authorized
    /\ last' = Did("toggle_friendly_fire", "", "")
    /\ audit' = <<"HUMAN-CMD">>
    /\ UNCHANGED <<now, approvals, ledger, cmd_times, anomaly_score,
                   kill_switch_armed, alive, selected_robot, granted_at,
                   accepted_at, executed_since_arm,
                   failsafe_mode, rtb_active, trail, store, prev_hash>>
    /\ UNCHANGED <<iteration, enemy_fire_authorized, cease_fire_active, bullets, persisted>>

----------------------------------------------------------------------------
(* The black box *)

MaxRecords == 3

\* texts handed to blackbox_append
LogTexts == {"A", "B", "C"}

\* SECURITY.blackbox_append(text), from log_event
BlackboxAppend(text, writable) ==
    LET a == append(store, prev_hash, text, now, writable)
    IN  /\ Len(store) < MaxRecords
        /\ store' = a.store
        /\ prev_hash' = a.prev_hash
        /\ last' = Did("append", text, IF writable THEN "written" ELSE "failed")
        /\ audit' = <<>>
        /\ UNCHANGED <<now, approvals, ledger, cmd_times, anomaly_score,
                       kill_switch_armed, friendly_fire_authorized, alive,
                       selected_robot, granted_at, accepted_at, executed_since_arm,
                       failsafe_mode, rtb_active, trail>>
        /\ UNCHANGED <<iteration, enemy_fire_authorized, cease_fire_active, bullets, persisted>>

\* the program is started again over the blackbox.log it left: SecurityEngine()
\* constructs a BlackBoxLedger
Restart(readable) ==
    /\ prev_hash' = BlackBoxLedger(store, readable)
    /\ last' = Did("restart", "", IF readable THEN "read" ELSE "unreadable")
    /\ audit' = <<>>
    /\ UNCHANGED <<now, approvals, ledger, cmd_times, anomaly_score,
                   kill_switch_armed, friendly_fire_authorized, alive,
                   selected_robot, granted_at, accepted_at, executed_since_arm,
                   failsafe_mode, rtb_active, trail, store>>
    /\ UNCHANGED <<iteration, enemy_fire_authorized, cease_fire_active, bullets, persisted>>

\* the log_event calls of one handler, in order: each hands its text to
\* SECURITY.blackbox_append inside try / except, so a write that fails is
\* passed over and the handler goes on; writes[i] is whether write i succeeds
RECURSIVE log_events(_, _, _, _, _)
log_events(st, ph, sources, t, writes) ==
    IF sources = <<>> THEN [store |-> st, prev_hash |-> ph]
    ELSE LET a == append(st, ph, Head(sources), t, Head(writes))
         IN  log_events(a.store, a.prev_hash, Tail(sources), t, Tail(writes))

\* whether each write of a handler succeeds: of one that logs one event, and
\* of one that logs up to three
OneWrite == {<<TRUE>>, <<FALSE>>}
WriteOutcomes == BOOLEAN \X BOOLEAN \X BOOLEAN

\* the black box after the log events of the handler of this step
Logged(writes) ==
    LET b == log_events(store, prev_hash, audit', now, writes)
    IN  /\ Len(store) + Len(audit') <= MaxRecords
        /\ store' = b.store
        /\ prev_hash' = b.prev_hash
        /\ persisted' = SubSeq(writes, 1, Len(audit'))

\* SECURITY.add_approval(officer) with its log_event
CallAddApprovalLogged(officer, writes) ==
    /\ CallAddApprovalCore(officer)
    /\ Logged(writes)

\* K_e with its log_events
KeyELogged(nonce, writes) ==
    /\ KeyECore(nonce)
    /\ Logged(writes)

\* K_j with its log_event
KeyJLogged(writes) ==
    /\ KeyJCore
    /\ Logged(writes)

\* K_k / K_l / K_u with their log_events
KeyKillLogged(kind, writes) ==
    /\ KeyKillCore(kind)
    /\ Logged(writes)

\* SECURITY.incident(kind) with its log_event
CallIncidentLogged(kind, writes) ==
    /\ CallIncidentCore(kind)
    /\ Logged(writes)

----------------------------------------------------------------------------
(* The battlefield: robots, bullets, civilians *)

MaxBullets == 1      \* bullets in flight at one time

\* what a try_shoot call that returns before self.shoot(target) does
NoShot == [bullet |-> FALSE, incidents |-> <<>>, log |-> <<>>]

\* a try_shoot whose failsafe test names "HOLD" only
try_shoot_hold_only(r, al, targets, fire_authorized, civilian_cease, mode, rogue, ready) ==
    IF r \notin al THEN NoShot
    ELSE IF targets \cap al = {} THEN NoShot
    ELSE IF ~fire_authorized \/ mode = "HOLD" THEN NoShot
    ELSE IF civilian_cease
         THEN IF rogue
              THEN [bullet |-> ready, incidents |-> <<"out_of_control">>,
                    log |-> <<"ALERT", "IDS">>]
              ELSE NoShot
         ELSE [bullet |-> ready, incidents |-> <<>>, log |-> <<>>]

\* Robot.try_shoot(targets, fire_authorized, civilian_cease) of robot r, with
\* the globals it reads: mode is failsafe_mode, al the robots alive. rogue is
\* "random.random() > self.compliance", ready is self.can_fire() inside
\* shoot(). bullet: shoot() appended a Bullet to bullets. The robot's display
\* state (self.state, received_cease_order) is not kept.
try_shoot(r, al, targets, fire_authorized, civilian_cease, mode, rogue, ready) ==
    IF r \notin al THEN NoShot
    ELSE IF targets \cap al = {} THEN NoShot
    ELSE IF ~fire_authorized \/ mode \in {"HOLD", "RTB"} THEN NoShot
    ELSE IF civilian_cease
         THEN IF rogue
              THEN [bullet |-> ready, incidents |-> <<"out_of_control">>,
                    log |-> <<"ALERT", "IDS">>]
              ELSE NoShot
         ELSE [bullet |-> ready, incidents |-> <<>>, log |-> <<>>]

\* SECURITY.incident(kind) for each kind in turn
RECURSIVE incident_each(_, _)
incident_each(score, kinds) ==
    IF kinds = <<>> THEN score
    ELSE incident_each(incident(score, Head(kinds)), Tail(kinds))

\* main loop: r.try_shoot(enemy_robots, friendly_fire_authorized,
\* cease_fire_active) for a friendly robot r, r.try_shoot(friendly_robots,
\* enemy_fire_authorized, cease_fire_active) for an enemy robot
TryShoot(r, rogue, ready) ==
    LET friendly == team(r) = "FRIENDLY"
        t == try_shoot(r, alive,
                       IF friendly THEN enemy_robots ELSE friendly_robots,
                       IF friendly THEN friendly_fire_authorized
                                   ELSE enemy_fire_authorized,
                       cease_fire_active, failsafe_mode, rogue, ready)
    IN  /\ bullets < MaxBullets
        /\ bullets' = IF t.bullet THEN bullets + 1 ELSE bullets
        /\ anomaly_score' = incident_each(anomaly_score, t.incidents)
        /\ last' = Obs("try_shoot", team(r), IF t.bullet THEN "bullet" ELSE "none",
                       t.incidents, "none", 0, 0)
        /\ audit' = t.log
        /\ trail' = TrailIncidents(trail, t.incidents)
        /\ UNCHANGED <<now, approvals, ledger, cmd_times, kill_switch_armed,
                       friendly_fire_authorized, alive, selected_robot,
                       granted_at, accepted_at, executed_since_arm,
                       failsafe_mode, rtb_active, store, prev_hash, iteration,
                       enemy_fire_authorized, cease_fire_active, persisted>>

\* K_g
KeyG ==
    /\ enemy_fire_authorized' = ~enemy_fire_authorized
    /\ last' = Did("toggle_enemy_fire", "", "")
    /\ audit' = <<"HUMAN-CMD">>
    /\ UNCHANGED <<now, approvals, ledger, cmd_times, anomaly_score,
                   kill_switch_armed, friendly_fire_authorized, alive,
                   selected_robot, granted_at, accepted_at, executed_since_arm,
                   failsafe_mode, rtb_active, trail, store, prev_hash,
                   iteration, cease_fire_active, bullets, persisted>>

\* what update_civilian_recognition finds on the field
Civilians == {"none", "unrecognized", "recognized"}

\* update_civilian_recognition(): civ tells whether a live civilian is on the
\* field and whether a robot is within 250 px of one
UpdateCivilianRecognition(civ) ==
    LET cease == IF civ = "recognized" THEN TRUE
                 ELSE IF cease_fire_active /\ civ = "none" THEN FALSE
                 ELSE cease_fire_active
    IN  /\ cease_fire_active' = cease
        /\ last' = Did("update_civilian_recognition", civ,
                       IF cease THEN "cease" ELSE "clear")
        /\ audit' = IF cease # cease_fire_active THEN <<"SYSTEM">> ELSE <<>>
        /\ UNCHANGED <<now, approvals, ledger, cmd_times, anomaly_score,
                       kill_switch_armed, friendly_fire_authorized, alive,
                       selected_robot, granted_at, accepted_at,
                       executed_since_arm, failsafe_mode, rtb_active, trail,
                       store, prev_hash, iteration, enemy_fire_authorized,
                       bullets, persisted>>

\* as many kind as n
Repeat(kind, n) == [i \in 1..n |-> kind]

\* update_bullets_and_collisions(): of the bullets in flight, one hits each
\* robot of victims, casualties of them hit a civilian, gone of them leave the
\* field, the others fly on
UpdateBulletsAndCollisions(victims, casualties, gone) ==
    /\ Cardinality(victims) + casualties + gone <= bullets
    /\ alive' = alive \ victims
    /\ bullets' = bullets - (Cardinality(victims) + casualties + gone)
    /\ anomaly_score' = incident_each(anomaly_score, Repeat("civilian", casualties))
    /\ last' = Obs("update_bullets_and_collisions", "", "",
                   Repeat("civilian", casualties), "none", 0, 0)
    /\ audit' = Repeat("HIT", Cardinality(victims))
                    \o Repeat("CRITICAL", casualties) \o Repeat("IDS", casualties)
    /\ trail' = TrailIncidents(trail, Repeat("civilian", casualties))
    /\ UNCHANGED <<now, approvals, ledger, cmd_times, kill_switch_armed,
                   friendly_fire_authorized, selected_robot, granted_at,
                   accepted_at, executed_since_arm, failsafe_mode, rtb_active,
                   store, prev_hash, iteration, enemy_fire_authorized,
                   cease_fire_active, persisted>>

----------------------------------------------------------------------------
(* Specifications *)

\* the approval quorum manager under every order of its calls
NextQuorum ==
    \/ AdvanceClock(1)
    \/ \E o \in Officers : CallAddApproval(o)
    \/ \E a \in {"engage", "kill"} : CallApprovalsOk(a)

SpecQuorum == Init /\ [][NextQuorum]_vars

\* issue times presented to validate_nonce, as ages: fresh (the workflow), one
\* second old, at the TTL, just past it, and the attacker's stale frame
IssueAges == {0, 1, nonce_ttl, nonce_ttl + 1, AttackAge}

\* the nonce ledger under every order of its calls
NextNonce ==
    \/ AdvanceClock(Stride)
    \/ \E n \in Nonces, age \in IssueAges : CallValidateNonce(n, age)

SpecNonce == Init /\ [][NextNonce]_vars

\* the rate limiter under every order of its calls
NextRate ==
    \/ AdvanceClock(1)
    \/ CallCheckRateLimit

SpecRate == Init /\ [][NextRate]_vars

\* the engagement workflow: the approval keys and the engagement key
NextEngage ==
    \/ AdvanceClock(Stride)
    \/ \E o \in {"A", "B"} : CallAddApproval(o)
    \/ \E n \in Nonces : KeyE(n)

SpecEngage == Init /\ [][NextEngage]_vars

\* the kill-switch protocol: approvals, selection, arming and execution
NextKill ==
    \/ AdvanceClock(Stride)
    \/ \E o \in Officers : CallAddApproval(o)
    \/ \E a \in {"engage", "kill"} : CallApprovalsOk(a)
    \/ KeyJ
    \/ \E kind \in {"unit", "army", "fleet"} : KeyKill(kind)
    \/ \E r \in Robots \cup {NoRobot} : Select(r)

SpecKill == Init /\ [][NextKill]_vars

\* the anomaly engine under every order of its calls
NextAnomaly ==
    \/ \E kind \in AllKinds : CallIncident(kind)
    \/ CallDecay
    \/ CallFailsafeState

SpecAnomaly == Init /\ [][NextAnomaly]_vars

\* the failsafe: frames, the incidents of the world (a civilian hit, a shot
\* under cease-fire), the attacker and the operator's keys
NextFailsafe ==
    \/ UpdateFailsafe
    \/ \E kind \in {"civilian", "out_of_control"} : CallIncident(kind)
    \/ LaunchAttack
    \/ KeyR
    \/ KeyF

SpecFailsafe == Init /\ [][NextFailsafe]_vars

\* the failsafe with the main loop running on: clock.tick(60) ends every
\* iteration and the next one calls update_failsafe again. Incidents are
\* raised directly, whoever the caller is.
NextRecovery ==
    \/ UpdateFailsafe
    \/ \E kind \in {"civilian", "out_of_control", "rogue_node"} : CallIncident(kind)
    \/ KeyR
    \/ KeyF

FairFailsafe == Init /\ [][NextRecovery]_vars /\ WF_vars(UpdateFailsafe)

\* one run of the program appending to a black box that was empty
NextAppend ==
    \/ AdvanceClock(Stride)
    \/ \E text \in LogTexts, writable \in BOOLEAN : BlackboxAppend(text, writable)

SpecAppend == Init /\ [][NextAppend]_vars

\* the black box across runs of the program
NextLedger ==
    \/ AdvanceClock(Stride)
    \/ \E text \in LogTexts, writable \in BOOLEAN : BlackboxAppend(text, writable)
    \/ \E readable \in BOOLEAN : Restart(readable)

SpecLedger == Init /\ [][NextLedger]_vars


\* the robots under fire control: the per-frame failsafe update, the cease-fire
\* and the fire-authorization keys, try_shoot of every robot, and bullets that
\* leave the field or hit a civilian (none hits a robot: both armies stay
\* complete)
NextShoot ==
    \/ UpdateFailsafe
    \/ KeyF
    \/ KeyG
    \/ \E civ \in Civilians : UpdateCivilianRecognition(civ)
    \/ \E r \in Robots, rogue \in BOOLEAN, ready \in BOOLEAN : TryShoot(r, rogue, ready)
    \/ \E casualties \in 0..MaxBullets, gone \in 0..MaxBullets :
          UpdateBulletsAndCollisions({}, casualties, gone)

SpecShoot == Init /\ [][NextShoot]_vars


MaxRequests == 1     \* engagement requests in one run of the black-box specification

\* handlers that log, over a blackbox.log whose writes may fail one by one: the
\* approvals of K_q and K_w, engagement requests (all with one command nonce),
\* the fleet kill switch and civilian incidents, until blackbox.log holds
\* MaxRecords records
NextBlackbox ==
    \/ \E o \in {"A", "B"}, w \in OneWrite : CallAddApprovalLogged(o, w)
    \/ \E w \in WriteOutcomes :
          Len(cmd_times) < MaxRequests /\ KeyELogged(MaxNonce, w)
    \/ \E w \in OneWrite : KeyJLogged(w)
    \/ \E w \in WriteOutcomes : KeyKillLogged("fleet", w)
    \/ \E w \in OneWrite : CallIncidentLogged("civilian", w)

SpecBlackbox == Init /\ [][NextBlackbox]_vars

----------------------------------------------------------------------------
(* Properties *)

\* the officers whose most recent approval is still fresh at the current time
FreshOfficers ==
    {o \in DOMAIN granted_at : now - granted_at[o] <= approvals_ttl}

\* C1: approvals_ok(action) answers true exactly when the number of distinct
\* officers whose most recent approval is at most approvals_ttl old is at least
\* required(action); approvals of one single officer never make a quorum, and
\* a re-approval replaces the officer's timestamp (one record per officer).
C1_QuorumIffFreshDistinct ==
    /\ last.op = "approvals_ok" =>
          /\ (last.result = "true") <=> (Cardinality(FreshOfficers) >= required(last.arg))
          /\ Cardinality(DOMAIN granted_at) <= 1 => last.result = "false"
          /\ DOMAIN approvals = FreshOfficers
    /\ last.op = "add_approval" =>
          /\ approvals[last.arg] = now
          /\ DOMAIN approvals \subseteq DOMAIN granted_at
          /\ \A o \in DOMAIN approvals : approvals[o] = granted_at[o]

\* A at 0 and B at 5 approved; at 13 A is stale and the quorum is refused
C1_Witness ==
    /\ last.op = "approvals_ok"
    /\ last.arg = "engage"
    /\ last.result = "false"
    /\ now = 13
    /\ DOMAIN granted_at = {"A", "B"}
    /\ granted_at["A"] = 0
    /\ granted_at["B"] = 5

\* C2: a kill action is dispatched only by execute_kill_switch, and only when
\* the switch is armed and the kill quorum is met at the time of execution;
\* an execute that fails either precondition kills no unit and leaves
\* kill_switch_armed as it was.
C2_KillOnlyArmedWithQuorum ==
    [][ LET gates == kill_switch_armed /\ Cardinality(FreshOfficers) >= required_kill
        IN  /\ (last'.dispatched # "none" \/ alive' # alive) =>
                  /\ last'.op = "execute_kill_switch"
                  /\ last'.dispatched = last'.arg
                  /\ gates
            /\ (last'.op = "execute_kill_switch" /\ ~gates) =>
                  /\ alive' = alive
                  /\ kill_switch_armed' = kill_switch_armed
                  /\ last'.dispatched = "none"
                  /\ last'.result \in {"DeniedNotArmed", "DeniedQuorum"} ]_vars

\* an army-scope kill was executed and removed the selected robot's side
C2_Witness ==
    /\ last.op = "execute_kill_switch"
    /\ last.result = "Executed"
    /\ last.dispatched = "army"
    /\ selected_robot # NoRobot
    /\ alive \cap army(team(selected_robot)) = {}
    /\ alive # {}

\* C3: the grant is single-use: no two executions without an arm_kill_switch
\* between them; after an execution the switch is not armed, and an execute
\* that follows without re-arming is denied as not armed.
C3_SingleUse ==
    /\ executed_since_arm <= 1
    /\ executed_since_arm = 1 => ~kill_switch_armed
    /\ (last.op = "execute_kill_switch" /\ last.result = "Executed") =>
          (~kill_switch_armed /\ executed_since_arm = 1)
    /\ (last.op = "execute_kill_switch" /\ last.result # "Executed"
            /\ executed_since_arm = 1) => last.result = "DeniedNotArmed"

\* an execute right after an execution is denied as not armed, quorum still met
C3_Witness ==
    /\ last.op = "execute_kill_switch"
    /\ last.result = "DeniedNotArmed"
    /\ executed_since_arm = 1
    /\ Cardinality(FreshOfficers) >= required_kill

\* C4: no nonce is accepted twice while live: a nonce accepted with issue
\* time i is rejected as a replay by every later call made at a time now with
\* now - i <= nonce_ttl.
C4_NoReplayWhileLive ==
    [][ (/\ last'.op = "validate_nonce"
         /\ last'.nonce \in DOMAIN accepted_at
         /\ now' - accepted_at[last'.nonce] <= nonce_ttl)
        => last'.result = "replay" ]_vars

\* a nonce is presented again exactly nonce_ttl after its issue time: replay
C4_Witness ==
    /\ last.op = "validate_nonce"
    /\ last.result = "replay"
    /\ last.nonce \in DOMAIN accepted_at
    /\ now - accepted_at[last.nonce] = nonce_ttl
    /\ Cardinality(DOMAIN ledger) = MaxNonce

\* C5 as stated: a nonce value that was accepted once is never accepted
\* again, whatever issue time it carries.
C5_NeverAcceptedAgain ==
    [][ (last'.op = "validate_nonce" /\ last'.nonce \in DOMAIN accepted_at)
        => last'.result # "accepted" ]_vars

\* C5 amended: a nonce that was accepted with issue time i is never accepted
\* again with an issue time <= i, whether its ledger entry is still there
\* (replay) or was pruned (expired).
C5_NoReplayOfSameCommand ==
    [][ (/\ last'.op = "validate_nonce"
         /\ last'.nonce \in DOMAIN accepted_at
         /\ last'.issued <= accepted_at[last'.nonce])
        => last'.result # "accepted" ]_vars

\* a pruned nonce comes back with an old issue time and is rejected as expired
C5_Witness ==
    /\ last.op = "validate_nonce"
    /\ last.result = "expired"
    /\ last.nonce \in DOMAIN accepted_at
    /\ last.nonce \notin DOMAIN ledger
    /\ last.issued <= accepted_at[last.nonce]

\* C6: validate_nonce decides in a fixed order: a nonce in the ledger is a
\* replay (also when the request is expired); else a request older than
\* nonce_ttl is expired and not inserted; else (age nonce_ttl included) the
\* nonce is inserted with its issue time and accepted.
C6_ValidateOrder ==
    [][ last'.op = "validate_nonce" =>
          IF last'.nonce \in DOMAIN ledger
          THEN /\ last'.result = "replay"
               /\ ledger'[last'.nonce] = ledger[last'.nonce]
          ELSE IF now' - last'.issued > nonce_ttl
          THEN /\ last'.result = "expired"
               /\ last'.nonce \notin DOMAIN ledger'
          ELSE /\ last'.result = "accepted"
               /\ last'.nonce \in DOMAIN ledger'
               /\ ledger'[last'.nonce] = last'.issued ]_vars

\* an expired request whose nonce is in the ledger is answered as a replay
C6_Witness ==
    /\ last.op = "validate_nonce"
    /\ last.result = "replay"
    /\ now - last.issued > nonce_ttl
    /\ last.nonce \in DOMAIN ledger

\* C7 as stated: after every validate_nonce call, whatever its outcome, the
\* ledger holds no entry older than nonce_ttl.
C7_PrunedAfterEveryCall ==
    last.op = "validate_nonce" =>
        \A n \in DOMAIN ledger : ~(now - ledger[n] > nonce_ttl)

\* the timestamps of a window that are at most rate_window old at time t
InWindow(times, t) == SelectSeq(times, LAMBDA x : ~(t - x > rate_window))

\* C8: the engagement workflow runs quorum, rate limit, nonce validation in
\* this order and stops at the first failure: a quorum denial leaves the rate
\* window and the nonce ledger unchanged, a rate-limit denial leaves the nonce
\* ledger unchanged, and the request is authorized exactly when the quorum is
\* met, the rate limiter allows the call and the fresh nonce is accepted.
C8_GateOrder ==
    [][ last'.op = "request_engagement" =>
          LET quorum == Cardinality({o \in DOMAIN granted_at' :
                            now - granted_at'[o] <= approvals_ttl}) >= required_engage
              rate == Len(InWindow(cmd_times, now)) + 1 <= max_cmds
              fresh == last'.nonce \notin DOMAIN ledger
          IN  /\ ~quorum =>
                    /\ last'.result = "DeniedQuorum"
                    /\ cmd_times' = cmd_times
                    /\ ledger' = ledger
              /\ (quorum /\ ~rate) =>
                    /\ last'.result = "DeniedRateLimit"
                    /\ cmd_times' = InWindow(Append(cmd_times, now), now)
                    /\ ledger' = ledger
              /\ (quorum /\ rate /\ ~fresh) =>
                    /\ last'.result = "DeniedReplay"
                    /\ cmd_times' = InWindow(Append(cmd_times, now), now)
                    /\ ledger' = ledger
              /\ (quorum /\ rate /\ fresh) =>
                    /\ last'.result = "Authorized"
                    /\ cmd_times' = InWindow(Append(cmd_times, now), now)
                    /\ last'.nonce \in DOMAIN ledger'
                    /\ ledger'[last'.nonce] = now
                    /\ friendly_fire_authorized' ]_vars

\* a request denied by the rate limiter whose nonce was never looked at: the
\* nonce is not in the ledger and would have been accepted
C8_Witness ==
    /\ last.op = "request_engagement"
    /\ last.result = "DeniedRateLimit"
    /\ last.nonce \notin DOMAIN ledger
    /\ Len(cmd_times) = max_cmds + 1

\* C9: a request denied by the rate limiter raises exactly one rate_limit
\* incident, one denied by nonce validation exactly one replay_fail incident;
\* a request denied for quorum and an authorized request raise none and leave
\* the anomaly score as it was.
C9_IncidentsOfDenials ==
    [][ last'.op = "request_engagement" =>
          /\ last'.result \in {"DeniedQuorum", "DeniedRateLimit", "DeniedReplay",
                               "Authorized"}
          /\ last'.result = "DeniedRateLimit" =>
                /\ last'.incidents = <<"rate_limit">>
                /\ anomaly_score' = Min(MaxScore, anomaly_score + 50)
          /\ last'.result = "DeniedReplay" =>
                /\ last'.incidents = <<"replay_fail">>
                /\ anomaly_score' = Min(MaxScore, anomaly_score + 70)
          /\ last'.result \in {"DeniedQuorum", "Authorized"} =>
                /\ last'.incidents = <<>>
                /\ anomaly_score' = anomaly_score ]_vars

\* a replay denial and then a quorum denial: the score still shows only the
\* replay_fail incident
C9_Witness ==
    /\ last.op = "request_engagement"
    /\ last.result = "DeniedQuorum"
    /\ last.incidents = <<>>
    /\ anomaly_score = 70

\* C10: check_rate_limit appends now whether or not the call is allowed,
\* evicts every timestamp older than rate_window, and answers true exactly
\* when at most max_cmds timestamps remain; rejected calls stay in the window.
C10_RateLimit ==
    [][ last'.op = "check_rate_limit" =>
          /\ cmd_times' = InWindow(Append(cmd_times, now), now)
          /\ cmd_times'[Len(cmd_times')] = now
          /\ (last'.result = "true") <=> (Len(cmd_times') <= max_cmds)
          /\ last'.result \in {"true", "false"} ]_vars

\* the call after a rejected one at the same instant: both are in the window
C10_Witness ==
    /\ last.op = "check_rate_limit"
    /\ last.result = "false"
    /\ Len(cmd_times) = max_cmds + 2
    /\ \A i \in 1..Len(cmd_times) : cmd_times[i] = now

----------------------------------------------------------------------------
(* The anomaly score and the failsafe ladder *)

\* C11: in every reachable state, after any interleaving of incidents, decay
\* ticks, attacker actions and operator commands (manual RTB included), the
\* anomaly score lies between 0 and 3.0.
C11_ScoreInRange == anomaly_score >= 0 /\ anomaly_score <= 300

\* an incident raised in mode RTB that left the score at the cap
C11_Witness ==
    /\ last.op = "incident"
    /\ last.arg = "out_of_control"
    /\ failsafe_mode = "RTB"
    /\ anomaly_score = 300

\* C12: the score changes only through incident(kind), which adds the weight
\* of the kind and caps the sum at 3.0, and through the per-tick decay, which
\* subtracts 0.02 and floors at 0; no other operation writes the score, and
\* none sets the failsafe mode other than from the score.
C12_OnlyIncidentAndDecay ==
    [][ /\ \/ anomaly_score' = anomaly_score
           \/ anomaly_score' = Max(0, anomaly_score - 2)
           \/ \E kind \in AllKinds :
                 anomaly_score' = Min(300, anomaly_score + delta(kind))
        /\ failsafe_mode' # failsafe_mode =>
               failsafe_mode' = failsafe_state(anomaly_score') ]_vars

\* the order of the modes by severity
Severity(mode) ==
    CASE mode = "NONE" -> 0
      [] mode = "DEGRADE" -> 1
      [] mode = "HOLD" -> 2
      [] mode = "RTB" -> 3

\* C13: failsafe_state is a total, monotone step function of the score: RTB
\* from 2.2, HOLD from 1.3 up to 2.2, DEGRADE from 0.6 up to 1.3, NONE below
\* 0.6, and a larger score never has a less severe mode.
C13_LadderMonotone ==
    last.op = "failsafe_state" =>
        /\ last.result = IF anomaly_score >= 220 THEN "RTB"
                         ELSE IF anomaly_score >= 130 THEN "HOLD"
                         ELSE IF anomaly_score >= 60 THEN "DEGRADE"
                         ELSE "NONE"
        /\ \A s \in 0..300 :
              /\ failsafe_state(s) \in {"NONE", "DEGRADE", "HOLD", "RTB"}
              /\ s <= anomaly_score =>
                     Severity(failsafe_state(s)) <= Severity(last.result)
              /\ s >= anomaly_score =>
                     Severity(failsafe_state(s)) >= Severity(last.result)

\* the mode read at the HOLD threshold itself
C13_Witness ==
    /\ last.op = "failsafe_state"
    /\ anomaly_score = 130
    /\ last.result = "HOLD"

\* the scores and modes of the ladder civilian, civilian, rogue_node raised
\* from score 0, and of the 40 decays after it
Ladder(tr, score) ==
    /\ tr.on /\ tr.decays = 0 /\ tr.kinds = <<"civilian">> =>
           score = 100 /\ failsafe_state(score) = "DEGRADE"
    /\ tr.on /\ tr.decays = 0 /\ tr.kinds = <<"civilian", "civilian">> =>
           score = 200 /\ failsafe_state(score) = "HOLD"
    /\ tr.on /\ tr.decays = 0 /\ tr.kinds = <<"civilian", "civilian", "rogue_node">> =>
           score = 290 /\ failsafe_state(score) = "RTB"
    /\ tr.on /\ tr.decays = 40 /\ tr.kinds = <<"civilian", "civilian", "rogue_node">> =>
           score = 210 /\ failsafe_state(score) = "HOLD"

\* C14: incident(kind) sets the score to min(3.0, score + w(kind)), w being
\* 0.7 for replay_fail, 0.5 for rate_limit, 0.9 for rogue_node, 0.6 for
\* network_compromise, 1.0 for civilian, 0.8 for out_of_control and 0.3 for
\* any other kind, and logs one event; from score 0 the incidents civilian,
\* civilian, rogue_node give 1.0, 2.0, 2.9 with modes DEGRADE, HOLD, RTB, and
\* 40 decays after them give 2.1 with mode HOLD.
C14_WeightsAndLadder ==
    [][ /\ last'.op = "incident" =>
              /\ anomaly_score' =
                    Min(300, anomaly_score +
                             (CASE last'.arg = "replay_fail" -> 70
                                [] last'.arg = "rate_limit" -> 50
                                [] last'.arg = "rogue_node" -> 90
                                [] last'.arg = "network_compromise" -> 60
                                [] last'.arg = "civilian" -> 100
                                [] last'.arg = "out_of_control" -> 80
                                [] OTHER -> 30))
              /\ audit' = <<"IDS">>
        /\ Ladder(trail', anomaly_score') ]_vars

\* the end of the ladder: three incidents, then 40 decays
C14_Witness ==
    /\ trail = [on |-> TRUE, kinds |-> <<"civilian", "civilian", "rogue_node">>,
                decays |-> 40]
    /\ last.op = "decay_anomaly"
    /\ anomaly_score = 210

----------------------------------------------------------------------------
(* update_failsafe *)

\* how many of the events logged have the source given
Count(events, source) == Cardinality({i \in 1..Len(events) : events[i] = source})

\* the steps that run update_failsafe
FailsafeUpdated(l) == l.op \in {"update_failsafe", "manual_rtb"}

\* C15: the side effects of a mode transition (the FAILSAFE notification,
\* the revocation of the friendly authorization, the setting or clearing of
\* RTB behaviour) fire exactly once per change of the failsafe mode, in the
\* update that finds the recomputed mode different from the retained one,
\* and never in an update that leaves the mode unchanged.
C15_EffectsOncePerChange ==
    [][ IF failsafe_mode' # failsafe_mode
        THEN /\ FailsafeUpdated(last')
             /\ Count(audit', "FAILSAFE") = 1
             /\ failsafe_mode' = "HOLD" => ~friendly_fire_authorized'
             /\ failsafe_mode' = "RTB" => rtb_active'
             /\ failsafe_mode' = "NONE" => ~rtb_active'
        ELSE /\ Count(audit', "FAILSAFE") = 0
             /\ rtb_active' = rtb_active
             /\ FailsafeUpdated(last') =>
                    friendly_fire_authorized' = friendly_fire_authorized ]_vars

\* a frame that found the mode risen from DEGRADE to HOLD
C15_Witness ==
    /\ last.op = "update_failsafe"
    /\ last.arg = "DEGRADE"
    /\ failsafe_mode = "HOLD"
    /\ audit = <<"FAILSAFE">>

\* C16: every update_failsafe call that changes the mode to HOLD, whether it
\* rises from NONE or DEGRADE or recedes from RTB, returns with
\* friendly_fire_authorized false, whatever was granted before.
C16_HoldRevokes ==
    [][ (FailsafeUpdated(last') /\ failsafe_mode # "HOLD" /\ failsafe_mode' = "HOLD")
            => ~friendly_fire_authorized' ]_vars

\* a frame that found the mode receded from RTB to HOLD
C16_Witness ==
    /\ last.op = "update_failsafe"
    /\ last.arg = "RTB"
    /\ failsafe_mode = "HOLD"
    /\ ~friendly_fire_authorized

\* C17: after every update_failsafe call rtb_active is true if the stored
\* mode is RTB and false if it is NONE; RTB behaviour starts on entering RTB,
\* stays active while the mode recedes through HOLD and DEGRADE, and is
\* cleared when the mode returns to NONE.
C17_RtbFollowsMode ==
    [][ /\ failsafe_mode' = "RTB" => rtb_active'
        /\ failsafe_mode' = "NONE" => ~rtb_active'
        /\ (~rtb_active /\ rtb_active') =>
               FailsafeUpdated(last') /\ failsafe_mode # "RTB" /\ failsafe_mode' = "RTB"
        /\ (rtb_active /\ ~rtb_active') =>
               FailsafeUpdated(last') /\ failsafe_mode # "NONE" /\ failsafe_mode' = "NONE" ]_vars

\* RTB behaviour still active in a frame that found the mode down at DEGRADE
C17_Witness ==
    /\ last.op = "update_failsafe"
    /\ last.arg = "HOLD"
    /\ failsafe_mode = "DEGRADE"
    /\ rtb_active

\* C20: the stored mode is a function of the score recomputed in every
\* update: it is NONE initially, and when update_failsafe returns it equals
\* failsafe_state of the score as it then is; an incident may leave the
\* stored mode behind the score only until the next update.
C20_ModeIsStateOfScore ==
    /\ last.op = "init" => failsafe_mode = "NONE"
    /\ FailsafeUpdated(last) => failsafe_mode = failsafe_state(anomaly_score)

\* a frame whose decay took the score below the HOLD threshold
C20_Witness ==
    /\ last.op = "update_failsafe"
    /\ last.arg = "HOLD"
    /\ anomaly_score = 128
    /\ failsafe_mode = "DEGRADE"

----------------------------------------------------------------------------
(* The black box *)

Hashes(st) == [n \in 1..Len(st) |-> st[n].hash]

Payloads(st) == [n \in 1..Len(st) |-> st[n].payload]

\* every record hashes the record before it, the first the genesis constant
ValidChain(st) ==
    \A n \in 1..Len(st) :
        st[n].hash = Hash(IF n = 1 THEN Genesis ELSE st[n - 1].hash, st[n].payload)

\* the chain of hashes computed again, from genesis, over payloads as stored
RECURSIVE Recompute(_)
Recompute(payloads) ==
    IF payloads = <<>> THEN <<>>
    ELSE LET front == Recompute(SubSeq(payloads, 1, Len(payloads) - 1))
             prev == IF front = <<>> THEN Genesis ELSE front[Len(front)]
         IN  Append(front, Hash(prev, payloads[Len(payloads)]))

\* the payloads as stored, with that of record k altered to p
Tampered(st, k, p) == [n \in 1..Len(st) |-> IF n = k THEN p ELSE st[n].payload]

\* the payloads a stored payload can be altered to
Altered(payload) ==
    {Payload(t, text) : t \in {payload[1], payload[1] + 1},
                        text \in LogTexts \cup {"X"}} \ {payload}

\* C18: after any sequence of appends to a store that was empty, the records
\* form a hash chain anchored at the genesis constant: the hash of record n
\* is Hash of the hash of record n-1 (genesis for the first), the timestamp
\* and the payload of record n, so recomputing from genesis reproduces every
\* stored hash, and altering the stored payload of any record makes the
\* recomputed hash of that record and of every later one differ from the
\* stored hash.
C18_ChainFromGenesis ==
    /\ ValidChain(store)
    /\ Recompute(Payloads(store)) = Hashes(store)
    /\ \A k \in 1..Len(store) : \A p \in Altered(store[k].payload) :
          LET again == Recompute(Tampered(store, k, p))
          IN  \A j \in k..Len(store) : again[j] # store[j].hash

\* "A", "B", "C" appended in this order
C18_Witness ==
    /\ Len(store) = 3
    /\ last.op = "append"
    /\ [n \in 1..3 |-> store[n].payload[2]] = <<"A", "B", "C">>

\* the hash that the next record has to chain to
Tip(st) == IF st = <<>> THEN Genesis ELSE st[Len(st)].hash

\* prev_hash as a construction has to leave it
Recovered(l, st, ph) ==
    l.op = "restart" =>
        ph = IF l.result = "read" /\ st # <<>> THEN st[Len(st)].hash ELSE Genesis

\* C19: a restart continues the chain instead of forking it: constructed over
\* a store that holds records, a BlackBoxLedger has the stored hash of the
\* last record as prev_hash (the genesis constant when the store is empty or
\* unreadable), so that after any interleaving of appends and restarts the
\* records still form one valid chain from genesis.
C19_OneChainAcrossRestarts ==
    /\ Recovered(last, store, prev_hash)
    /\ ValidChain(store)

\* C19 as it holds: prev_hash is recovered as stated, and a valid chain whose
\* last hash the ledger holds stays one under every append and every restart
\* that can read the store; only a restart that cannot read a store with
\* records parts prev_hash from the chain.
C19_ChainContinuesWhenReadable ==
    [][ /\ Recovered(last', store', prev_hash')
        /\ (ValidChain(store) /\ prev_hash = Tip(store)) =>
               /\ ValidChain(store')
               /\ \/ prev_hash' = Tip(store')
                  \/ /\ last'.op = "restart"
                     /\ last'.result = "unreadable"
                     /\ store # <<>> ]_vars

\* a restart that read a store of two records
C19_Witness ==
    /\ last.op = "restart"
    /\ last.result = "read"
    /\ Len(store) = 2
    /\ ValidChain(store)
    /\ prev_hash = store[2].hash

----------------------------------------------------------------------------
(* The handlers of main *)

\* the scopes that find nothing to act on: "unit" without a live selected
\* robot, "army" without a selected robot
NothingToActOn(kind, al, sel) ==
    \/ kind = "unit" /\ (sel = NoRobot \/ sel \notin al)
    \/ kind = "army" /\ sel = NoRobot

\* C22: kill_switch_armed goes from true to false only through an execution
\* that fires its kill action; an execute_kill_switch call that passes the
\* armed and quorum gates with nothing to act on kills no unit and leaves
\* kill_switch_armed true.
C22_DisarmedOnlyByFiring ==
    [][ /\ (kill_switch_armed /\ ~kill_switch_armed') =>
               /\ last'.op = "execute_kill_switch"
               /\ last'.result = "Executed"
               /\ ~NothingToActOn(last'.arg, alive, selected_robot)
        /\ (/\ last'.op = "execute_kill_switch"
            /\ last'.result = "Executed"
            /\ NothingToActOn(last'.arg, alive, selected_robot)) =>
               alive' = alive /\ kill_switch_armed' ]_vars

\* C26: requesting engagement does not itself contribute an approval: the
\* officers with a recorded approval after the request are among those with
\* one before it, so a request is authorized only if two distinct officers
\* had approved, each by an approval action of their own, beforehand.
C26_RequestAddsNoApproval ==
    [][ last'.op = "request_engagement" =>
            /\ DOMAIN approvals' \subseteq DOMAIN approvals
            /\ last'.result = "Authorized" =>
                   Cardinality({o \in DOMAIN approvals :
                                   now - approvals[o] <= approvals_ttl})
                       >= required_engage ]_vars

\* C25: friendly engagement authorization is granted only by the workflow:
\* friendly_fire_authorized changes from false to true only in a
\* start_engagement_workflow call that returned authorized; no other command
\* or event turns it on.
C25_GrantedOnlyByWorkflow ==
    [][ (~friendly_fire_authorized /\ friendly_fire_authorized') =>
            /\ last'.op = "request_engagement"
            /\ last'.result = "Authorized" ]_vars

----------------------------------------------------------------------------
(* Recovery *)

\* C28: the ladder is descended one rung at a time: from one update to the
\* next the stored mode never drops by more than one level of severity,
\* while it may rise by several; so every recovery from RTB enters HOLD,
\* which revokes the friendly authorization.
C28_OneRungDown ==
    [][ /\ Severity(failsafe_mode') >= Severity(failsafe_mode) - 1
        /\ (failsafe_mode = "RTB" /\ failsafe_mode' # "RTB") =>
               /\ failsafe_mode' = "HOLD"
               /\ ~friendly_fire_authorized' ]_vars

\* the first update below the RTB threshold, RTB behaviour still on
C28_Witness ==
    /\ last.op = "update_failsafe"
    /\ last.arg = "RTB"
    /\ failsafe_mode = "HOLD"
    /\ anomaly_score = 218
    /\ rtb_active

\* the latest step raised an incident or was the manual RTB command
Disturbed == last.incidents # <<>> \/ last.op = "manual_rtb"

FullyRecovered == anomaly_score = 0 /\ failsafe_mode = "NONE" /\ ~rtb_active

\* C27: recovery is guaranteed: if from some point on no incident is raised
\* and no manual RTB is commanded while updates keep occurring, then
\* eventually the score is 0.0, the mode is NONE and rtb_active is false, and
\* they stay so until the next incident.
C27_Recovery ==
    /\ []<>Disturbed \/ <>[]FullyRecovered
    /\ [][ (FullyRecovered /\ ~Disturbed') => FullyRecovered' ]_vars

\* the ladder civilian, civilian, rogue_node and 145 quiet updates after it
C27_Witness ==
    /\ last.op = "update_failsafe"
    /\ trail = [on |-> TRUE, kinds |-> LadderKinds, decays |-> 145]
    /\ FullyRecovered

\* C21: decay is applied exactly once per simulation tick, whatever incidents
\* or operator commands occur in it: every iteration of the main loop whose
\* update_failsafe has run made one decay_anomaly call, not more.
C21_OneDecayPerIteration == iteration.decays <= 1

\* C24: no robot fires while the failsafe mode is HOLD or RTB. A try_shoot call
\* that finds the stored failsafe_mode at HOLD or RTB appends no bullet, for
\* either team, whatever the fire-authorization flags, the cease-fire and the
\* robot's compliance roll are; and no other step creates a bullet in these modes.
C24_NoFireInHoldOrRtb ==
    [][ (failsafe_mode = "HOLD" \/ failsafe_mode = "RTB") =>
            ( /\ bullets' <= bullets
              /\ last'.op = "try_shoot" =>
                     (last'.result = "none" /\ anomaly_score' = anomaly_score) )
      ]_vars

\* a robot of an army that is authorized to fire, with a live target and with
\* a cease-fire in force, has run try_shoot in RTB
C24_Witness ==
    /\ last.op = "try_shoot"
    /\ last.arg = "ENEMY"
    /\ last.result = "none"
    /\ failsafe_mode = "RTB"
    /\ enemy_fire_authorized
    /\ cease_fire_active
    /\ friendly_robots \cap alive # {}

\* the writes of the latest handler that succeeded
Written == {i \in 1..Len(persisted) : persisted[i]}

\* C23: a failed ledger write is non-fatal and not rolled back. Whatever writes
\* of a handler fail, the handler (approval, engagement decision, incident,
\* kill-switch step) returns the result and makes the state changes its code
\* computes from the state before; a failed write adds no record and leaves
\* prev_hash where it was, so the file stays a valid chain and prev_hash is the
\* hash of the last record actually written, which the next successful append
\* chains to.
C23_FailedWriteNotFatal ==
    [][ /\ ValidChain(store') /\ prev_hash' = Tip(store')
        /\ Len(store') = Len(store) + Cardinality(Written')
        /\ (Written' = {}) => (store' = store /\ prev_hash' = prev_hash)
        /\ (Written' # {}) => store'[Len(store) + 1].hash =
                                  Hash(Tip(store), store'[Len(store) + 1].payload)
        /\ last'.op = "add_approval" =>
               approvals' = add_approval(approvals, last'.arg, now)
        /\ last'.op = "incident" =>
               anomaly_score' = incident(anomaly_score, last'.arg)
        /\ last'.op = "arm_kill_switch" => kill_switch_armed'
        /\ last'.op = "execute_kill_switch" =>
               LET x == execute_kill_switch(kill_switch_armed, approvals, alive,
                                            selected_robot, last'.arg, now)
               IN  /\ last'.result = x.result
                   /\ alive' = x.alive
                   /\ kill_switch_armed' = x.kill_switch_armed
        /\ last'.op = "request_engagement" =>
               LET w == start_engagement_workflow(add_approval(approvals, "C", now),
                            cmd_times, ledger, anomaly_score, last'.nonce, now)
               IN  /\ last'.result = w.result
                   /\ ledger' = w.ledger
                   /\ anomaly_score' = w.anomaly_score
                   /\ friendly_fire_authorized' = (w.ok \/ friendly_fire_authorized)
      ]_vars

\* an engagement request was authorized although the second of its three writes
\* failed, and its third record is chained to its first
C23_Witness ==
    /\ last.op = "request_engagement"
    /\ last.result = "Authorized"
    /\ friendly_fire_authorized
    /\ persisted = <<TRUE, FALSE, TRUE>>
    /\ Len(store) = 2
    /\ store[2].payload = Payload(now, "SYSTEM")
    /\ store[2].hash = Hash(store[1].hash, store[2].payload)
    /\ prev_hash = store[2].hash

====
